---- MODULE Spec2Model ----
(***************************************************************************)
(* Model of cosmic_var.py (Moster+2011 cosmic variance cookbook):          *)
(*   calc_COSMOS_cosmic_variance(mean_z, delta_z, log_m_stellar, survey)   *)
(*   get_cosmic_variance_array(mean_z, delta_z, mass_array, survey)        *)
(*                                                                         *)
(* Numbers.  Masses are kept as integers in hundredths (9.25 is 925); the  *)
(* inputs are the doubles nearest to n/100.  Table parameters are kept in  *)
(* thousandths (0.185 is 185).  The returned float delta_gg is kept        *)
(* symbolically as the pair of table rows that Equations (10) and (13)     *)
(* were evaluated with; mean_z and delta_z only scale that value and do    *)
(* not influence any branch, so they are not part of the state.            *)
(***************************************************************************)
EXTENDS Integers, Sequences, FiniteSets

VARIABLES
    op,                 \* which function was called: "single" or "array"
    dtype,              \* element type of mass_array: "float" or "float64"
    survey,             \* the survey argument
    log_m_stellar,      \* argument of a direct calc_COSMOS_cosmic_variance call
    mass_array,         \* argument of get_cosmic_variance_array
    i,                  \* loop index of get_cosmic_variance_array (1-based)
    cosmic_var_array,   \* the output array being filled
    ret,                \* value returned by a direct call
    pc,                 \* "call", "loop", "returned", "raised"
    exc,                \* name of the exception that ended the call, or ""
    stdout,             \* lines printed so far
    buckets,            \* one record per executed bucketing (lines 111-122)
    lookups             \* one record per completed table lookup (line 81)

vars == <<op, dtype, survey, log_m_stellar, mass_array, i, cosmic_var_array,
          ret, pc, exc, stdout, buckets, lookups>>

-----------------------------------------------------------------------------
(* Bounds of the model *)

MinMass == 840      \* smallest mass on the 0.01 grid (8.40)
MaxMass == 1200     \* largest mass on the 0.01 grid (12.00)
MaxLen == 2         \* longest mass_array of the general specification

Masses == MinMass..MaxMass

\* Array elements of the general specification: below the table, exact keys,
\* half-integers, values that round to a half-integer, values that overflow.
SampleMasses == {830, 850, 875, 900, 904, 925, 955, 1025, 1125, 1146, 1151, 1200}

-----------------------------------------------------------------------------
(* Values: Python's float-or-str dictionary keys *)

Num(n) == [kind |-> "num", n |-> n, s |-> ""]
Str(s) == [kind |-> "str", n |-> 0, s |-> s]

Surveys == {"UDF", "GOODS", "GEMS", "EGS", "COSMOS"}

\* Table 3 rows: sigma_a, sigma_b, beta (thousandths)
SurveyParams(sv) ==
    IF sv = "UDF" THEN <<251, 364, 358>>
    ELSE IF sv = "GOODS" THEN <<261, 854, 684>>
    ELSE IF sv = "GEMS" THEN <<161, 520, 729>>
    ELSE IF sv = "EGS" THEN <<128, 383, 673>>
    ELSE <<69, 234, 834>>

\* Lines printed by the survey branch
SurveyPrints(sv) ==
    IF sv = "COSMOS" THEN <<"COSMOS">>
    ELSE IF sv \in Surveys THEN <<>>
    ELSE <<"Survey field must be specified (to determine which row of table 3 to use)">>

\* Keys of dict_galaxy_bias_fit_parameters_floats, in insertion order
FloatKeys == <<875, 925, 975, 1025, 1075, 1125>>

ThresholdLabels == {">8.5", ">9.0", ">9.5", ">10.0", ">10.5", ">11.0"}

\* Keys of dict_galaxy_bias_fit_parameters
TableKeys ==
    {Num(FloatKeys[j]) : j \in 1..Len(FloatKeys)} \cup {Str(s) : s \in ThresholdLabels}

\* Table 4 rows: b_0, b_1, b_2 (thousandths)
dict_galaxy_bias_fit_parameters(k) ==
    IF k = Num(875) THEN <<62, 2590, 1025>>
    ELSE IF k = Num(925) THEN <<74, 2580, 1039>>
    ELSE IF k = Num(975) THEN <<42, 3170, 1147>>
    ELSE IF k = Num(1025) THEN <<53, 3070, 1225>>
    ELSE IF k = Num(1075) THEN <<69, 3190, 1269>>
    ELSE IF k = Num(1125) THEN <<173, 2890, 1438>>
    ELSE IF k = Str(">8.5") THEN <<63, 2620, 1104>>
    ELSE IF k = Str(">9.0") THEN <<85, 2500, 1098>>
    ELSE IF k = Str(">9.5") THEN <<58, 2960, 1192>>
    ELSE IF k = Str(">10.0") THEN <<72, 2900, 1257>>
    ELSE IF k = Str(">10.5") THEN <<93, 3020, 1332>>
    ELSE <<185, 2860, 1448>>

-----------------------------------------------------------------------------
(* Floating point: the rounding calls of get_cosmic_variance_array *)

Abs(x) == IF x < 0 THEN -x ELSE x

\* Half-even choice between the tenths k and k+1
HalfEven(k) == IF k % 2 = 0 THEN k ELSE k + 1

\* round(mass, 1) for the double nearest n/100, in tenths.
\* A Python float is rounded on its exact binary value: for n in [800, 1600)
\* the double is N/2^49 with N the integer nearest n*2^49/100, and since
\* 2^49 % 100 = 12 the remainder r = (12*n) % 100 tells on which side of
\* n/100 the double lies (r = 0: exactly n/100, a true tie, rounded half-even).
\* A numpy float64 is rounded as rint(mass*10)/10: on this range the product
\* of a value ending in 5 is exactly k + 0.5, and rint rounds it half-even.
round1(dt, n) ==
    IF n % 10 # 5 THEN (n + 5) \div 10
    ELSE IF dt = "float64" THEN HalfEven(n \div 10)
    ELSE LET r == (12 * n) % 100
         IN  IF r = 0 THEN HalfEven(n \div 10)
             ELSE IF r < 50 THEN n \div 10
             ELSE (n \div 10) + 1

\* round(t % 0.5, 2) for t a one-decimal double given in tenths; in hundredths.
\* Multiples of 0.5 are exact doubles, so the remainder is 0.0 exactly on them.
mod05_tenths(t) == (t % 5) * 10

\* round(h, 2) % 0.5 for h a multiple of 0.25 given in hundredths; in hundredths
mod05_hundredths(h) == h % 50

\* x <= 0.0001 for x in hundredths
le_eps(x) == x * 100 <= 1

\* Line 111: mod = round(round(mass, 1) % 0.5, 2)
mod(dt, n) == mod05_tenths(round1(dt, n))

\* Line 112: which branch of the bucketing an element takes
branch(dt, n) == IF le_eps(mod(dt, n)) THEN "if" ELSE "else"

\* Variant: shifts a half-integer down by a whole bin width
nudge_down_bin_width(n) == n - 50

\* Lines 113-114: mass -= 0.25; mass = round(mass, 2)
nudge_down(n) == n - 25

\* Variant: rounds to the nearest quarter instead of flooring
floor_quarter_nearest(n) == ((n + 12) \div 25) * 25

\* Line 117: mass_rounded = (mass // 0.25) * 0.25
floor_quarter(n) == (n \div 25) * 25

\* Variant: shifts up a quarter step without testing for a half-integer
snap_to_grid_always_shift(n) == floor_quarter(n) + 25

\* Lines 116-119: the else branch
snap_to_grid(n) ==
    LET mass_rounded == floor_quarter(n)
    IN  IF le_eps(mod05_hundredths(mass_rounded)) THEN mass_rounded + 25
        ELSE mass_rounded

\* Lines 111-119: the value of mass after the round-to-grid step (hundredths)
round_to_grid(dt, n) ==
    IF branch(dt, n) = "if" THEN nudge_down(n) ELSE snap_to_grid(n)

\* Variant: the overflow test written with >= instead of >
overflow_inclusive(m) == IF m >= 1125 THEN Str(">11.0") ELSE Num(m)

\* Variant: the overflow rule names the wrong threshold row
overflow_wrong_label(m) == IF m > 1125 THEN Str(">10.5") ELSE Num(m)

\* Lines 121-122: if mass > 11.25: mass = '>11.0'
overflow(m) == IF m > 1125 THEN Str(">11.0") ELSE Num(m)

\* Lines 111-122: the log_m_stellar handed to calc_COSMOS_cosmic_variance
bucket(dt, n) == overflow(round_to_grid(dt, n))

-----------------------------------------------------------------------------
(* calc_COSMOS_cosmic_variance *)

WarningLine == "WARNING: input 'log_m_stellar' not found in 'dict_galaxy_bias_fit_parameters'"

\* Variant: the epsilon of the lambda with the opposite sign
key_distance_minus_eps(x, n) == Abs(10 * x - 10 * n - 1)

\* Line 79: the lambda, abs(x - log_m_stellar + 0.001), in thousandths
key_distance(x, n) == Abs(10 * x - 10 * n + 1)

\* Line 79: min(dict, key=...) keeps the first key of smallest distance,
\* scanning the dictionary in insertion order
RECURSIVE min_scan(_, _, _, _)
min_scan(keys, n, j, best) ==
    IF j > Len(keys) THEN best
    ELSE IF key_distance(keys[j], n) < key_distance(best, n)
         THEN min_scan(keys, n, j + 1, keys[j])
         ELSE min_scan(keys, n, j + 1, best)

nearest_key(n) == min_scan(FloatKeys, n, 2, FloatKeys[1])

\* The float returned on line 89, kept as the rows it was computed from
DeltaGG(sigma, bias) == [kind |-> "delta_gg", sigma |-> sigma, bias |-> bias]
Zero == [kind |-> "zero", sigma |-> <<0, 0, 0>>, bias |-> <<0, 0, 0>>]
NoValue == [kind |-> "none", sigma |-> <<0, 0, 0>>, bias |-> <<0, 0, 0>>]

\* Variant: the membership test of line 68 made against the float-only table
calc_membership_in_floats(sv, lms) ==
    IF sv \notin Surveys
    THEN [exc |-> "UnboundLocalError", out |-> SurveyPrints(sv),
          warned |-> FALSE, key |-> lms, value |-> NoValue]
    ELSE IF lms \in {Num(FloatKeys[j]) : j \in 1..Len(FloatKeys)}
    THEN [exc |-> "", out |-> SurveyPrints(sv), warned |-> FALSE, key |-> lms,
          value |-> DeltaGG(SurveyParams(sv), dict_galaxy_bias_fit_parameters(lms))]
    ELSE IF lms.kind = "str"
    THEN [exc |-> "TypeError", out |-> SurveyPrints(sv) \o <<WarningLine>>,
          warned |-> TRUE, key |-> lms, value |-> NoValue]
    ELSE LET k == Num(nearest_key(lms.n))
         IN  [exc |-> "", out |-> SurveyPrints(sv) \o <<WarningLine>>,
              warned |-> TRUE, key |-> k,
              value |-> DeltaGG(SurveyParams(sv), dict_galaxy_bias_fit_parameters(k))]

\* Lines 26-89: one call.  exc is "" when the call returns.
calc_COSMOS_cosmic_variance(sv, lms) ==
    IF sv \notin Surveys
    THEN \* line 48 reads sigma_a, which no branch assigned
         [exc |-> "UnboundLocalError", out |-> SurveyPrints(sv),
          warned |-> FALSE, key |-> lms, value |-> NoValue]
    ELSE IF lms \in TableKeys
    THEN [exc |-> "", out |-> SurveyPrints(sv), warned |-> FALSE, key |-> lms,
          value |-> DeltaGG(SurveyParams(sv), dict_galaxy_bias_fit_parameters(lms))]
    ELSE IF lms.kind = "str"
    THEN \* line 79 subtracts a str from a float
         [exc |-> "TypeError", out |-> SurveyPrints(sv) \o <<WarningLine>>,
          warned |-> TRUE, key |-> lms, value |-> NoValue]
    ELSE LET k == Num(nearest_key(lms.n))
         IN  [exc |-> "", out |-> SurveyPrints(sv) \o <<WarningLine>>,
              warned |-> TRUE, key |-> k,
              value |-> DeltaGG(SurveyParams(sv), dict_galaxy_bias_fit_parameters(k))]

-----------------------------------------------------------------------------
(* The calls *)

\* Everything that can be passed as log_m_stellar: grid floats, the six
\* threshold labels, and a string that is no key of the table
MassArgs ==
    {Num(n) : n \in Masses} \cup {Str(s) : s \in ThresholdLabels} \cup {Str(">12.0")}

SurveyArgs == Surveys \cup {"XYZ"}

DTypes == {"float", "float64"}

\* Sequences over S of length at most n
SeqsUpTo(S, n) == UNION {[1..k -> S] : k \in 0..n}

\* State at entry of a call, before its first statement
Entry ==
    /\ i = 0
    /\ cosmic_var_array = <<>>
    /\ ret = NoValue
    /\ pc = "call"
    /\ exc = ""
    /\ stdout = <<>>
    /\ buckets = <<>>
    /\ lookups = <<>>

\* A direct call of calc_COSMOS_cosmic_variance
InitSingle ==
    /\ op = "single"
    /\ dtype = "float"
    /\ survey \in SurveyArgs
    /\ log_m_stellar \in MassArgs
    /\ mass_array = <<>>
    /\ Entry

\* A call of get_cosmic_variance_array on a short array
InitArray ==
    /\ op = "array"
    /\ dtype \in DTypes
    /\ survey \in SurveyArgs
    /\ log_m_stellar = Num(0)
    /\ mass_array \in SeqsUpTo(SampleMasses, MaxLen)
    /\ Entry

Init == InitSingle \/ InitArray

\* A call of get_cosmic_variance_array on one grid mass
InitElem ==
    /\ op = "array"
    /\ dtype \in DTypes
    /\ survey \in SurveyArgs
    /\ log_m_stellar = Num(0)
    /\ mass_array \in [1..1 -> Masses]
    /\ Entry

\* A call of get_cosmic_variance_array on two grid masses, default survey
\* (line 91: survey="COSMOS")
InitPair ==
    /\ op = "array"
    /\ dtype \in DTypes
    /\ survey = "COSMOS"
    /\ log_m_stellar = Num(0)
    /\ mass_array \in [1..2 -> Masses]
    /\ Entry

\* Lines 4-89 as one step of a direct call
CalcCall ==
    /\ op = "single"
    /\ pc = "call"
    /\ LET r == calc_COSMOS_cosmic_variance(survey, log_m_stellar)
       IN  /\ stdout' = stdout \o r.out
           /\ IF r.exc = ""
              THEN /\ pc' = "returned"
                   /\ ret' = r.value
                   /\ exc' = exc
                   /\ lookups' = Append(lookups,
                          [arg |-> log_m_stellar, key |-> r.key, warned |-> r.warned])
              ELSE /\ pc' = "raised"
                   /\ exc' = r.exc
                   /\ UNCHANGED <<ret, lookups>>
    /\ UNCHANGED <<op, dtype, survey, log_m_stellar, mass_array, i,
                   cosmic_var_array, buckets>>

\* Line 108: cosmic_var_array = np.zeros(len(mass_array))
ArrayEnter ==
    /\ op = "array"
    /\ pc = "call"
    /\ cosmic_var_array' = [j \in 1..Len(mass_array) |-> Zero]
    /\ i' = 1
    /\ pc' = "loop"
    /\ UNCHANGED <<op, dtype, survey, log_m_stellar, mass_array, ret, exc,
                   stdout, buckets, lookups>>

\* Variant: the result is stored counting from the end of the output array
LoopBodyStoresReversed ==
    /\ pc = "loop"
    /\ i <= Len(mass_array)
    /\ LET mass == mass_array[i]
           arg == bucket(dtype, mass)
           r == calc_COSMOS_cosmic_variance(survey, arg)
       IN  /\ buckets' = Append(buckets,
                  [mass |-> mass, branch |-> branch(dtype, mass),
                   grid |-> round_to_grid(dtype, mass), arg |-> arg])
           /\ stdout' = stdout \o r.out
           /\ IF r.exc = ""
              THEN /\ cosmic_var_array' =
                          [cosmic_var_array EXCEPT ![Len(mass_array) + 1 - i] = r.value]
                   /\ lookups' = Append(lookups,
                          [arg |-> arg, key |-> r.key, warned |-> r.warned])
                   /\ i' = i + 1
                   /\ UNCHANGED <<pc, exc>>
              ELSE /\ pc' = "raised"
                   /\ exc' = r.exc
                   /\ UNCHANGED <<cosmic_var_array, lookups, i>>
    /\ UNCHANGED <<op, dtype, survey, log_m_stellar, mass_array, ret>>

\* Lines 110-125: one iteration of the loop, the call on line 124 included
LoopBody ==
    /\ pc = "loop"
    /\ i <= Len(mass_array)
    /\ LET mass == mass_array[i]
           arg == bucket(dtype, mass)
           r == calc_COSMOS_cosmic_variance(survey, arg)
       IN  /\ buckets' = Append(buckets,
                  [mass |-> mass, branch |-> branch(dtype, mass),
                   grid |-> round_to_grid(dtype, mass), arg |-> arg])
           /\ stdout' = stdout \o r.out
           /\ IF r.exc = ""
              THEN /\ cosmic_var_array' = [cosmic_var_array EXCEPT ![i] = r.value]
                   /\ lookups' = Append(lookups,
                          [arg |-> arg, key |-> r.key, warned |-> r.warned])
                   /\ i' = i + 1
                   /\ UNCHANGED <<pc, exc>>
              ELSE /\ pc' = "raised"
                   /\ exc' = r.exc
                   /\ UNCHANGED <<cosmic_var_array, lookups, i>>
    /\ UNCHANGED <<op, dtype, survey, log_m_stellar, mass_array, ret>>

\* Line 127: return cosmic_var_array
ArrayReturn ==
    /\ pc = "loop"
    /\ i > Len(mass_array)
    /\ pc' = "returned"
    /\ UNCHANGED <<op, dtype, survey, log_m_stellar, mass_array, i,
                   cosmic_var_array, ret, exc, stdout, buckets, lookups>>

Next == CalcCall \/ ArrayEnter \/ LoopBody \/ ArrayReturn

NextArray == ArrayEnter \/ LoopBody \/ ArrayReturn

InitGrid == InitSingle \/ InitElem

\* Direct calls and array calls on short arrays, every survey argument
Spec == Init /\ [][Next]_vars

\* Direct calls and one-element array calls on every grid mass
SpecGrid == InitGrid /\ [][Next]_vars

\* Array calls on every pair of grid masses
SpecPair == InitPair /\ [][NextArray]_vars

-----------------------------------------------------------------------------
(* Properties *)

NumericKeys == {Num(FloatKeys[j]) : j \in 1..Len(FloatKeys)}

\* The keys the array path is meant to hand over: a bin center or '>11.0'
CanonicalKeys == NumericKeys \cup {Str(">11.0")}

OverflowRow == <<185, 2860, 1448>>

Warned == \E j \in 1..Len(stdout) : stdout[j] = WarningLine

ArrayDone == op = "array" /\ pc = "returned"
SingleDone == op = "single" /\ pc = "returned"

\* Position of a resolved key in 8.75 < 9.25 < ... < 11.25 < '>11.0'
BinRank(k) == IF k.kind = "str" THEN 7 ELSE ((k.n - 875) \div 50) + 1

\* C1: on the array path every value handed to calc_COSMOS_cosmic_variance is
\* one of the six bin centers or '>11.0', and no lookup needs the nearest-key
\* fallback.
C1_ArgAlwaysCanonical ==
    op = "array" =>
        /\ \A j \in 1..Len(buckets) : buckets[j].arg \in CanonicalKeys
        /\ \A j \in 1..Len(lookups) : ~lookups[j].warned

\* C2: the output array has the length of mass_array; every position already
\* processed holds what bucketing and lookup give for that element alone, and
\* every position not yet processed still holds the initial zero.
C2_ElementwiseInOrder ==
    (op = "array" /\ pc \in {"loop", "returned"}) =>
        /\ Len(cosmic_var_array) = Len(mass_array)
        /\ (pc = "returned" => i = Len(mass_array) + 1)
        /\ \A j \in 1..Len(mass_array) :
              IF j < i
              THEN cosmic_var_array[j] =
                       calc_COSMOS_cosmic_variance(survey,
                                                   bucket(dtype, mass_array[j])).value
              ELSE cosmic_var_array[j] = Zero

C2_Witness ==
    /\ ArrayDone
    /\ Len(mass_array) = 2
    /\ mass_array[1] > mass_array[2]
    /\ cosmic_var_array[1] # cosmic_var_array[2]

\* C3: an element equal to one of the six bin centers is handed over
\* unchanged, and bucketing the bucketed value again changes nothing.
C3_KeysAreFixedPoints ==
    \A j \in 1..Len(buckets) :
        Num(buckets[j].mass) \in NumericKeys =>
            /\ buckets[j].grid = buckets[j].mass
            /\ buckets[j].arg = Num(buckets[j].mass)
            /\ bucket(dtype, buckets[j].grid) = buckets[j].arg

C3_Witness ==
    /\ ArrayDone
    /\ mass_array = <<1025>>
    /\ lookups[1].key = Num(1025)
    /\ cosmic_var_array[1].bias = <<53, 3070, 1225>>

\* C4: a direct call with a mass midway between two adjacent bin centers
\* (9.0, 9.5, 10.0, 10.5, 11.0) resolves to the lower of the two.
C4_MidpointTakesLowerKey ==
    (SingleDone /\ log_m_stellar \in {Num(900), Num(950), Num(1000), Num(1050), Num(1100)}) =>
        /\ Len(lookups) = 1
        /\ lookups[1].key = Num(log_m_stellar.n - 25)
        /\ ret.bias = dict_galaxy_bias_fit_parameters(Num(log_m_stellar.n - 25))

C4_Witness ==
    /\ SingleDone
    /\ log_m_stellar = Num(950)
    /\ lookups[1].key = Num(925)
    /\ lookups[1].warned

\* C5: an element whose value after the round-to-grid step exceeds 11.25 is
\* computed with the '>11.0' row, without fallback and without warning; an
\* element whose value is at most 11.25 is never computed with that row.
C5_OverflowRule ==
    (op = "array" /\ survey \in Surveys) =>
        \A j \in 1..Len(lookups) :
            IF buckets[j].grid > 1125
            THEN /\ lookups[j].arg = Str(">11.0")
                 /\ lookups[j].key = Str(">11.0")
                 /\ ~lookups[j].warned
                 /\ cosmic_var_array[j].bias = OverflowRow
            ELSE /\ lookups[j].key # Str(">11.0")
                 /\ cosmic_var_array[j].bias # OverflowRow

C5_Witness ==
    /\ ArrayDone
    /\ mass_array = <<1151>>
    /\ buckets[1].branch = "if"
    /\ buckets[1].grid = 1126
    /\ cosmic_var_array[1].bias = OverflowRow
    /\ ~Warned

\* C6: with a survey outside the five labels a call that reaches
\* calc_COSMOS_cosmic_variance never returns; it ends with an InvalidSurvey
\* error and leaves no numeric result.
C6_InvalidSurveyError ==
    (survey \notin Surveys /\ (op = "single" \/ Len(mass_array) > 0)) =>
        /\ pc # "returned"
        /\ ret = NoValue
        /\ (pc = "raised" => exc = "InvalidSurvey")

\* C7: a direct call with a recognized survey prints the warning exactly when
\* log_m_stellar is no key of the table; a numeric log_m_stellar that is no
\* key still resolves to a key and the call returns a value; a log_m_stellar
\* that is a key has its own row used, without warning.
C7_WarningIffNotAKey ==
    (op = "single" /\ survey \in Surveys /\ pc # "call") =>
        /\ Warned <=> log_m_stellar \notin TableKeys
        /\ (log_m_stellar.kind = "num" /\ log_m_stellar \notin TableKeys) =>
              /\ pc = "returned"
              /\ lookups[1].key \in TableKeys
              /\ ret = DeltaGG(SurveyParams(survey),
                               dict_galaxy_bias_fit_parameters(lookups[1].key))
        /\ log_m_stellar \in TableKeys =>
              /\ pc = "returned"
              /\ lookups[1].key = log_m_stellar
              /\ ~lookups[1].warned
              /\ ret = DeltaGG(SurveyParams(survey),
                               dict_galaxy_bias_fit_parameters(log_m_stellar))

C7_Witness ==
    /\ SingleDone
    /\ log_m_stellar = Num(1199)
    /\ Warned
    /\ lookups[1].key = Num(1125)

\* C8: a lookup that went through the nearest-key fallback ends on one of the
\* six bin centers, and the only threshold row an array call ever uses is
\* '>11.0'.
C8_ThresholdOnlyByOverflow ==
    /\ \A j \in 1..Len(lookups) : lookups[j].warned => lookups[j].key \in NumericKeys
    /\ op = "array" =>
          \A j \in 1..Len(lookups) :
              lookups[j].key.kind = "str" =>
                  /\ lookups[j].key = Str(">11.0")
                  /\ buckets[j].grid > 1125

C8_Witness ==
    /\ ArrayDone
    /\ mass_array = <<1146>>
    /\ lookups[1].arg = Num(1121)
    /\ lookups[1].warned
    /\ lookups[1].key = Num(1125)

\* C9: in the else branch the value after the round-to-grid step is an odd
\* multiple of 0.25: the quarter floor of the mass when that is no multiple
\* of 0.5 and a quarter above it otherwise, which is the center of the
\* half-unit interval [k*0.5, (k+1)*0.5) holding the mass.
C9_ElseBranchBinCenter ==
    \A j \in 1..Len(buckets) :
        buckets[j].branch = "else" =>
            LET m == buckets[j].mass
                g == buckets[j].grid
                q == 25 * (m \div 25)
            IN  /\ g % 50 = 25
                /\ g = (IF q % 50 # 0 THEN q ELSE q + 25)
                /\ g = 50 * (m \div 50) + 25
                /\ g - 25 <= m
                /\ m < g + 25

C9_Witness ==
    /\ ArrayDone
    /\ buckets[1].branch = "else"
    /\ buckets[1].mass = 906
    /\ buckets[1].grid = 925

\* C10: the mass-to-bin mapping of an array call is order-preserving: of two
\* elements the smaller mass never resolves to a higher bin.
C10_BinMapMonotone ==
    op = "array" =>
        \A j, k \in 1..Len(lookups) :
            mass_array[j] <= mass_array[k] =>
                BinRank(lookups[j].key) <= BinRank(lookups[k].key)

C10_Witness ==
    /\ ArrayDone
    /\ Len(lookups) = 2
    /\ mass_array[1] < mass_array[2]
    /\ lookups[1].warned
    /\ BinRank(lookups[1].key) < BinRank(lookups[2].key)
    /\ BinRank(lookups[2].key) < 7

====
